---- MODULE Spec2Model ----
(***************************************************************************)
(* bloomchain: a multi-level index of bloom filters over numbered records. *)
(* BloomChain (src/src/chain.rs) computes, from a read-only database of    *)
(* Position -> Bloom, the diff maps of insert and replace and the results  *)
(* of the pruning search with_bloom / filter.  The caller persists a diff. *)
(*                                                                         *)
(* PositionManager, Bloom, BloomDatabase and Filter are modules of the     *)
(* crate that chain.rs only imports; they are modelled from their          *)
(* documented contracts.                                                   *)
(***************************************************************************)
EXTENDS Integers, Sequences, FiniteSets

\* ---------------------------------------------------------------- bounds
\* Numbers are 0..MaxNum.
MaxNum == 2
\* A Bloom is a bit vector of NBits bits, held as the set of its set bits.
NBits == 1
\* Longest list of blooms handed to replace, and of candidates of a Filter.
MaxLen == 2
\* Tree shapes: elements_per_index in 1..MaxB, levels in 1..MaxL.
MaxB == 2
MaxL == 3
\* The tree has at most MaxSlots slots over the Numbers.
MaxSlots == 6

VARIABLES
    config,   \* Config: [elements_per_index, levels], fixed at construction
    db,       \* the BloomDatabase: a partial map Position -> Bloom
    stale,    \* history: slots above a reset Number that replace left alone
    call,     \* the operation last called, with its arguments
    result,   \* what that call returned (a diff map, or a list of Numbers)
    prev,     \* the database as it was when that call was made
    writers,  \* two unserialized writers: [pc, call, diff] each
    split     \* writer 1 owns Numbers < split, writer 2 the Numbers >= split

vars == <<config, db, stale, call, result, prev, writers, split>>

\* ------------------------------------------------------------ Bloom algebra
Blooms == SUBSET (1..NBits)
\* Bloom::default(): all bits zero.
BloomDefault == {}
\* a | b
BitOr(a, b) == a \cup b
\* a.contains(b): every bit set in b is set in a.
contains(a, b) == b \subseteq a

\* Option<T>
None == [some |-> FALSE]
Some(v) == [some |-> TRUE, val |-> v]

\* ---------------------------------------------------------- PositionManager
RECURSIVE Pow(_, _)
Pow(b, e) == IF e = 0 THEN 1 ELSE b * Pow(b, e - 1)

levels == config.levels
max_level == config.levels - 1
level_size(level) == Pow(config.elements_per_index, level)
position(number, level) == [level |-> level, index |-> number \div level_size(level)]
\* The B children of a slot of level > 0, in ascending index order.
lower_level_positions(p) ==
    [k \in 1..config.elements_per_index |->
        [level |-> p.level - 1, index |-> p.index * config.elements_per_index + (k - 1)]]

\* ------------------------------------------------------------ BloomDatabase
bloom_at(d, p) == IF p \in DOMAIN d THEN Some(d[p]) ELSE None

\* HashMap::insert
MapInsert(m, k, v) == [x \in (DOMAIN m) \cup {k} |-> IF x = k THEN v ELSE m[x]]
EmptyMap == [x \in {} |-> BloomDefault]

\* The caller's atomic write of a returned diff map.
Persist(d, diff) ==
    [x \in (DOMAIN d) \cup (DOMAIN diff) |-> IF x \in DOMAIN diff THEN diff[x] ELSE d[x]]

\* ------------------------------------------------------------------ insert
\* The bloom insert records at one position: old | bloom, or bloom alone.
insert_new_bloom_xor(d, pos, bloom) ==
    LET old == bloom_at(d, pos) IN
    IF old.some THEN (old.val \ bloom) \cup (bloom \ old.val) ELSE bloom

insert_new_bloom_overwrite(d, pos, bloom) == bloom

insert_new_bloom(d, pos, bloom) ==
    LET old == bloom_at(d, pos) IN
    IF old.some THEN BitOr(old.val, bloom) ELSE bloom

\* for level in 0..levels { result.insert(position, new_bloom) }
RECURSIVE insert_loop(_, _, _, _, _)
insert_loop(d, number, bloom, level, res) ==
    IF level >= levels THEN res
    ELSE LET pos == position(number, level) IN
         insert_loop(d, number, bloom, level + 1,
                     MapInsert(res, pos, insert_new_bloom(d, pos, bloom)))

insert(d, number, bloom) == insert_loop(d, number, bloom, 0, EmptyMap)

\* ----------------------------------------------------------------- replace
\* for (i, bloom) in blooms.iter().enumerate(): level-0 slot of start + i.
RECURSIVE replace_new(_, _, _, _)
replace_new(range, blooms, i, res) ==
    IF i >= Len(blooms) THEN res
    ELSE replace_new(range, blooms, i + 1,
                     MapInsert(res, position(range.start + i, 0), blooms[i + 1]))

\* The reset loop runs over start + len .. end + 1 (end exclusive, as in Rust).
reset_start_whole_range(range, blooms) == range.start

reset_start(range, blooms) == range.start + Len(blooms)

reset_end_one_too_far(range) == range.end + 2

reset_end(range) == range.end + 1

\* for reset_number in start + len .. end + 1: level-0 slot set to default.
RECURSIVE replace_reset(_, _, _)
replace_reset(range, reset_number, res) ==
    IF reset_number >= reset_end(range) THEN res
    ELSE replace_reset(range, reset_number + 1,
                       MapInsert(res, position(reset_number, 0), BloomDefault))

\* The closure bloom_at of replace: the map being built before the database.
replace_bloom_at_db_only(res, d, index) == bloom_at(d, index)

replace_bloom_at(res, d, index) ==
    IF index \in DOMAIN res THEN Some(res[index]) ELSE bloom_at(d, index)

\* filter_map(bloom_at).fold(Bloom::default(), |acc, bloom| acc | bloom)
RECURSIVE fold_children(_, _, _, _, _)
fold_children(res, d, children, k, acc) ==
    IF k > Len(children) THEN acc
    ELSE LET b == replace_bloom_at(res, d, children[k]) IN
         fold_children(res, d, children, k + 1,
                       IF b.some THEN BitOr(acc, b.val) ELSE acc)

\* How many Numbers from range.start on get their slot of a level recomputed.
recompute_count_whole_range(range, blooms) ==
    IF range.end + 1 - range.start > Len(blooms)
    THEN range.end + 1 - range.start ELSE Len(blooms)

recompute_count(range, blooms) == Len(blooms)

\* for i in 0..blooms.len(): recompute the slot of `level` above start + i.
RECURSIVE replace_level(_, _, _, _, _, _)
replace_level(d, range, blooms, level, i, res) ==
    IF i >= recompute_count(range, blooms) THEN res
    ELSE LET index == position(range.start + i, level)
             new_bloom == fold_children(res, d, lower_level_positions(index), 1,
                                        BloomDefault)
         IN replace_level(d, range, blooms, level, i + 1,
                          MapInsert(res, index, new_bloom))

\* for level in 1..levels
RECURSIVE replace_levels(_, _, _, _, _)
replace_levels(d, range, blooms, level, res) ==
    IF level >= levels THEN res
    ELSE replace_levels(d, range, blooms, level + 1,
                        replace_level(d, range, blooms, level, 0, res))

replace(d, range, blooms) ==
    LET inserted == replace_new(range, blooms, 0, EmptyMap)
        reset == replace_reset(range, reset_start(range, blooms), inserted)
    IN replace_levels(d, range, blooms, 1, reset)

\* ------------------------------------------------------------------ search
\* The match of blocks on the stored bloom: give up, report, or go down.
blocks_match_no_prune(stored, bloom, level) ==
    IF ~stored.some THEN "none"
    ELSE IF level = 0 /\ contains(stored.val, bloom) THEN "hit"
    ELSE IF level = 0 THEN "none"
    ELSE "down"

blocks_match(stored, bloom, level) ==
    IF ~stored.some THEN "none"
    ELSE IF level = 0 /\ contains(stored.val, bloom) THEN "hit"
    ELSE IF ~contains(stored.val, bloom) THEN "none"
    ELSE "down"

\* chose only blooms in range
in_range_from_only(li, from_position, to_position) ==
    li.index >= from_position.index

in_range(li, from_position, to_position) ==
    li.index >= from_position.index /\ li.index <= to_position.index

RECURSIVE blocks(_, _, _, _, _)
\* filter, map, filter_map and flat_map over the children of `index`, in order.
RECURSIVE blocks_children(_, _, _, _, _, _, _)
blocks_children(d, range, bloom, level, children, k, acc) ==
    IF k > Len(children) THEN acc
    ELSE LET li == children[k]
             keep == in_range(li, position(range.start, level - 1),
                              position(range.end, level - 1))
             sub == IF keep
                    THEN blocks(d, range, bloom, level - 1,
                                li.index * level_size(level - 1))
                    ELSE None
         IN blocks_children(d, range, bloom, level, children, k + 1,
                            IF sub.some THEN acc \o sub.val ELSE acc)

blocks(d, range, bloom, level, offset) ==
    LET index == position(offset, level)
        m == blocks_match(bloom_at(d, index), bloom, level)
    IN CASE m = "none" -> None
         [] m = "hit" -> Some(<<offset>>)
         [] OTHER -> Some(blocks_children(d, range, bloom, level,
                                          lower_level_positions(index), 1, <<>>))

\* for index in from_position.index..to_position.index + 1
RECURSIVE with_bloom_loop(_, _, _, _, _)
with_bloom_loop(d, range, bloom, index, res) ==
    IF index > position(range.end, max_level).index THEN res
    ELSE LET b == blocks(d, range, bloom, max_level, level_size(max_level) * index)
         IN with_bloom_loop(d, range, bloom, index + 1,
                            IF b.some THEN res \o b.val ELSE res)

with_bloom(d, range, bloom) ==
    with_bloom_loop(d, range, bloom, position(range.start, max_level).index, <<>>)

\* ------------------------------------------------------------------ filter
Range(s) == {s[k] : k \in DOMAIN s}

\* flat_map(|bloom| with_bloom(&range, bloom)) over the candidates, in order.
RECURSIVE flat_with_bloom(_, _, _, _)
flat_with_bloom(d, range, possibilities, k) ==
    IF k > Len(possibilities) THEN <<>>
    ELSE with_bloom(d, range, possibilities[k])
         \o flat_with_bloom(d, range, possibilities, k + 1)

\* A HashSet handed back as a Vec: each element once, in an order the hasher
\* picks (here: some order).
RECURSIVE hash_set_into_vec(_)
hash_set_into_vec(S) ==
    IF S = {} THEN <<>>
    ELSE LET x == CHOOSE y \in S : TRUE IN <<x>> \o hash_set_into_vec(S \ {x})

\* blocks.sort(): insertion into an ascending list, equal elements kept.
RECURSIVE sort_insert(_, _)
sort_insert(s, x) ==
    IF s = <<>> THEN <<x>>
    ELSE IF x <= Head(s) THEN <<x>> \o s
    ELSE <<Head(s)>> \o sort_insert(Tail(s), x)

RECURSIVE sort(_)
sort(s) == IF s = <<>> THEN <<>> ELSE sort_insert(sort(Tail(s)), Head(s))

filter_no_hash_set(d, range, possibilities) ==
    sort(flat_with_bloom(d, range, possibilities, 1))

filter(d, range, possibilities) ==
    sort(hash_set_into_vec(Range(flat_with_bloom(d, range, possibilities, 1))))

\* ------------------------------------------------------------ input domains
Numbers == 0..MaxNum
Ranges == {r \in [start : Numbers, end : Numbers] : r.start <= r.end}
BloomLists == UNION {[1..k -> Blooms] : k \in 0..MaxLen}
\* The number of slots of a tree of shape s over the Numbers.
RECURSIVE SlotCount(_, _)
SlotCount(s, l) ==
    IF l >= s.levels THEN 0
    ELSE (MaxNum \div Pow(s.elements_per_index, l)) + 1 + SlotCount(s, l + 1)

Shapes ==
    {s \in [elements_per_index : 1..MaxB, levels : 1..MaxL] : SlotCount(s, 0) <= MaxSlots}
\* The slots that cover the Numbers.
Positions ==
    {position(n, l) : n \in Numbers, l \in 0..max_level}
\* replace writes the level-0 slots of start .. start + len - 1.
Fits(range, blooms) == range.start + Len(blooms) - 1 <= MaxNum

NoCall == [op |-> "none"]
NoWriters ==
    [w \in {1, 2} |-> [pc |-> "idle", call |-> NoCall, diff |-> EmptyMap, base |-> EmptyMap]]

\* The slots of level > 0 above the Numbers replace reset to default and that
\* its returned map does not hold.
LeftAlone(range, blooms, diff) ==
    {position(n, l) : n \in (range.start + Len(blooms))..range.end,
                      l \in 1..max_level} \ DOMAIN diff

\* ----------------------------------------- a serialized writer, from empty
Init ==
    /\ config \in Shapes
    /\ db = EmptyMap
    /\ stale = {}
    /\ call = NoCall
    /\ result = <<>>
    /\ prev = EmptyMap
    /\ writers = NoWriters
    /\ split = 0

\* insert(number, bloom), its diff persisted atomically.
InsertWrite(number, bloom) ==
    /\ db' = Persist(db, insert(db, number, bloom))
    /\ UNCHANGED <<config, stale, call, result, prev, writers, split>>

\* replace(range, blooms), its diff persisted atomically.
ReplaceWrite(range, blooms) ==
    /\ Fits(range, blooms)
    /\ LET diff == replace(db, range, blooms) IN
        /\ db' = Persist(db, diff)
        /\ stale' = (stale \ DOMAIN diff) \cup LeftAlone(range, blooms, diff)
    /\ UNCHANGED <<config, call, result, prev, writers, split>>

Next ==
    \/ \E n \in Numbers, b \in Blooms : InsertWrite(n, b)
    \/ \E r \in Ranges, bs \in BloomLists : ReplaceWrite(r, bs)

Spec == Init /\ [][Next]_vars

\* ------------------------------- single calls, against any database content
AllDatabases == UNION {[S -> Blooms] : S \in SUBSET Positions}

InitAny ==
    /\ config \in Shapes
    /\ db \in AllDatabases
    /\ stale = {}
    /\ call = NoCall
    /\ result = <<>>
    /\ prev = EmptyMap
    /\ writers = NoWriters
    /\ split = 0

\* insert returns its diff; the database is only read.
InsertCall(number, bloom) ==
    /\ call = NoCall
    /\ call' = [op |-> "insert", number |-> number, bloom |-> bloom, done |-> FALSE]
    /\ result' = insert(db, number, bloom)
    /\ prev' = db
    /\ UNCHANGED <<config, db, stale, writers, split>>

\* replace returns its diff; the database is only read.
ReplaceCall(range, blooms) ==
    /\ call = NoCall
    /\ Fits(range, blooms)
    /\ call' = [op |-> "replace", range |-> range, blooms |-> blooms, done |-> FALSE]
    /\ result' = replace(db, range, blooms)
    /\ prev' = db
    /\ UNCHANGED <<config, db, stale, writers, split>>

\* The caller writes the returned diff to the database, atomically.
PersistResult ==
    /\ call.op \in {"insert", "replace"}
    /\ ~call.done
    /\ db' = Persist(db, result)
    /\ call' = [call EXCEPT !.done = TRUE]
    /\ UNCHANGED <<config, stale, result, prev, writers, split>>

WithBloomCall(range, bloom) ==
    /\ call = NoCall
    /\ call' = [op |-> "with_bloom", range |-> range, bloom |-> bloom, done |-> TRUE]
    /\ result' = with_bloom(db, range, bloom)
    /\ prev' = db
    /\ UNCHANGED <<config, db, stale, writers, split>>

\* filter on a Filter with this range() and these bloom_possibilities().
FilterCall(range, possibilities) ==
    /\ call = NoCall
    /\ call' = [op |-> "filter", range |-> range, possibilities |-> possibilities,
                done |-> TRUE]
    /\ result' = filter(db, range, possibilities)
    /\ prev' = db
    /\ UNCHANGED <<config, db, stale, writers, split>>

\* The caller is done with what the call returned.
Return ==
    /\ call # NoCall
    /\ call' = NoCall
    /\ result' = <<>>
    /\ prev' = EmptyMap
    /\ UNCHANGED <<config, db, stale, writers, split>>

NextAny ==
    \/ \E n \in Numbers, b \in Blooms : InsertCall(n, b)
    \/ \E r \in Ranges, bs \in BloomLists : ReplaceCall(r, bs)
    \/ PersistResult
    \/ \E r \in Ranges, b \in Blooms : WithBloomCall(r, b)
    \/ \E r \in Ranges, ps \in BloomLists : FilterCall(r, ps)
    \/ Return

SpecAny == InitAny /\ [][NextAny]_vars

\* ------------------------------ two writers that are not serialized, each
\* ------------------------------ writing its own part of the Numbers
InitConc ==
    /\ config \in Shapes
    /\ db = EmptyMap
    /\ stale = {}
    /\ call = NoCall
    /\ result = <<>>
    /\ prev = EmptyMap
    /\ writers = NoWriters
    /\ split \in 1..MaxNum

Owned(w) == IF w = 1 THEN {n \in Numbers : n < split} ELSE {n \in Numbers : n >= split}

WriteCalls ==
    [op : {"insert"}, number : Numbers, bloom : Blooms]
        \cup {c \in [op : {"replace"}, range : Ranges, blooms : BloomLists] :
                Fits(c.range, c.blooms)}

\* The Numbers whose level-0 slot the call writes.
CallNumbers(c) ==
    IF c.op = "insert" THEN {c.number}
    ELSE {n \in Numbers : /\ c.range.start <= n
                          /\ (n <= c.range.end \/ n < c.range.start + Len(c.blooms))}

Diff(d, c) ==
    IF c.op = "insert" THEN insert(d, c.number, c.bloom)
    ELSE replace(d, c.range, c.blooms)

\* Writer w calls insert or replace on Numbers of its own: the diff is
\* computed from the database as it is now.
Compute(w, c) ==
    /\ writers[w].pc = "idle"
    /\ CallNumbers(c) \subseteq Owned(w)
    /\ writers' = [writers EXCEPT ![w] =
                      [pc |-> "computed", call |-> c, diff |-> Diff(db, c), base |-> db]]
    /\ UNCHANGED <<config, db, stale, call, result, prev, split>>

\* Writer w persists its diff, atomically.
PersistDiff(w) ==
    /\ writers[w].pc = "computed"
    /\ db' = Persist(db, writers[w].diff)
    /\ writers' = [writers EXCEPT ![w].pc = "persisted"]
    /\ UNCHANGED <<config, stale, call, result, prev, split>>

\* Both writes are through; the Numbers are partitioned anew.
NextRound ==
    /\ \A w \in {1, 2} : writers[w].pc = "persisted"
    /\ writers' = NoWriters
    /\ split' \in 1..MaxNum
    /\ UNCHANGED <<config, db, stale, call, result, prev>>

NextConc ==
    \/ \E w \in {1, 2}, c \in WriteCalls : Compute(w, c)
    \/ \E w \in {1, 2} : PersistDiff(w)
    \/ NextRound

SpecConc == InitConc /\ [][NextConc]_vars

\* =================================================================== claims
BloomOrDefault(d, p) == IF p \in DOMAIN d THEN d[p] ELSE BloomDefault
ChildrenUnion(d, p) ==
    UNION {BloomOrDefault(d, c) : c \in Range(lower_level_positions(p))}
Aggregated(d, p) == BloomOrDefault(d, p) = ChildrenUnion(d, p)
UpperSlots == {p \in Positions : p.level > 0}
InRange(range) == {n \in Numbers : range.start <= n /\ n <= range.end}
\* The brute-force scan of the level-0 slots of a range.
LinearScan(d, range, q) ==
    {n \in InRange(range) : position(n, 0) \in DOMAIN d /\ contains(d[position(n, 0)], q)}

\* C1: after any sequence of persisted insert and replace diffs from an empty
\* database, every slot of level > 0 holds the union of its B children (an
\* absent slot counting as all-zero), except the slots above a Number that a
\* replace reset and that this replace did not recompute (and no later
\* replace has recomputed).
C1_AggregationInvariant ==
    \A p \in UpperSlots : p \notin stale => Aggregated(db, p)

\* C1 witness: a slot left stale by replace does break the aggregation, while
\* another slot of level > 0 holds a non-zero aggregate.
C1_Witness ==
    /\ \E p \in stale : ~Aggregated(db, p)
    /\ \E p \in UpperSlots \ stale : p \in DOMAIN db /\ db[p] # BloomDefault

\* C2: the result set of with_bloom equals the linear scan of the level-0
\* slots of the range, for every query bloom, the all-zero one included.
C2_NoFalseNegatives ==
    \A r \in Ranges, q \in Blooms :
        Range(with_bloom(db, r, q)) = LinearScan(db, r, q)

\* C3: once the diff of replace(range, blooms), blooms non-empty, is persisted
\* over any database, with_bloom over [start, start + len - 1] returns exactly
\* the Numbers start + i with contains(blooms[i], q).
C3_RoundTrip ==
    (call.op = "replace" /\ call.done /\ Len(call.blooms) > 0) =>
        LET first == call.range.start
            last == call.range.start + Len(call.blooms) - 1
        IN \A q \in Blooms :
            Range(with_bloom(db, [start |-> first, end |-> last], q))
                = {first + i : i \in {j \in 0..(Len(call.blooms) - 1) :
                                        contains(call.blooms[j + 1], q)}}

\* C3 witness: a persisted replace of two blooms, one containing a query and
\* one not, over a database that held other content in those slots.
C3_Witness ==
    /\ call.op = "replace" /\ call.done /\ Len(call.blooms) = 2
    /\ \E q \in Blooms : contains(call.blooms[1], q) /\ ~contains(call.blooms[2], q)
    /\ position(call.range.start, 0) \in DOMAIN prev
    /\ prev[position(call.range.start, 0)] # call.blooms[1]
    /\ max_level > 0

\* C4: every Number with_bloom returns has, at every level, a present stored
\* bloom that contains the query, whatever the database holds.
C4_Pruning ==
    call.op = "with_bloom" =>
        \A n \in Range(result) : \A l \in 0..max_level :
            /\ position(n, l) \in DOMAIN db
            /\ contains(db[position(n, l)], call.bloom)

\* C4 witness: a search that returns a Number and prunes another Number of the
\* range whose level-0 bloom contains the query under a slot that does not.
C4_Witness ==
    /\ call.op = "with_bloom"
    /\ result # <<>>
    /\ \E n \in LinearScan(db, call.range, call.bloom) :
          \E l \in 1..max_level :
              /\ position(n, l) \in DOMAIN db
              /\ ~contains(db[position(n, l)], call.bloom)

\* C5: with_bloom returns no Number outside its range, for any database, any
\* tree shape and any range with start <= end.
C5_RangeContainment ==
    call.op = "with_bloom" =>
        \A n \in Range(result) : call.range.start <= n /\ n <= call.range.end

\* C5 witness: a search that returns a Number while a Number outside the
\* range, under the same top-level slot, matches the query at every level.
C5_Witness ==
    /\ call.op = "with_bloom"
    /\ result # <<>>
    /\ \E n \in Numbers \ InRange(call.range) :
          /\ position(n, max_level) = position(result[1], max_level)
          /\ \A l \in 0..max_level :
                /\ position(n, l) \in DOMAIN db
                /\ contains(db[position(n, l)], call.bloom)
    /\ max_level > 0

\* C6: filter returns a strictly ascending sequence whose elements are exactly
\* the Numbers with_bloom returns for some candidate bloom.
C6_Filter ==
    call.op = "filter" =>
        /\ \A i \in 1..(Len(result) - 1) : result[i] < result[i + 1]
        /\ Range(result) =
              UNION {Range(with_bloom(db, call.range, c)) : c \in Range(call.possibilities)}

\* C6 witness: a filter of two candidates that both match one Number, and
\* that returns more than one Number.
C6_Witness ==
    /\ call.op = "filter"
    /\ Len(call.possibilities) = 2
    /\ Len(result) > 1
    /\ \E n \in Range(result) :
          /\ n \in Range(with_bloom(db, call.range, call.possibilities[1]))
          /\ n \in Range(with_bloom(db, call.range, call.possibilities[2]))

\* C7: insert(number, bloom) returns exactly one entry per level, keyed by
\* position(number, level), whose value is union(existing or default, bloom),
\* and leaves the database as it was.
C7_InsertDiff ==
    (call.op = "insert" /\ ~call.done) =>
        /\ DOMAIN result = {position(call.number, l) : l \in 0..(levels - 1)}
        /\ Cardinality(DOMAIN result) = levels
        /\ \A p \in DOMAIN result :
              result[p] = BitOr(BloomOrDefault(db, p), call.bloom)
        /\ db = prev

\* C7 witness: an insert over a slot whose existing bloom has a bit the new
\* bloom lacks, with another of its slots absent.
C7_Witness ==
    /\ call.op = "insert" /\ ~call.done
    /\ \E p \in DOMAIN result : p \in DOMAIN db /\ ~contains(call.bloom, db[p])
    /\ \E p \in DOMAIN result : p \notin DOMAIN db

\* C8: with the diff of insert(n, b) persisted, the diff of a second
\* insert(n, b) against the updated database changes nothing.
C8_InsertIdempotent ==
    (call.op = "insert" /\ call.done) =>
        Persist(db, insert(db, call.number, call.bloom)) = db

\* C8 witness: a persisted insert that changed a present slot.
C8_Witness ==
    /\ call.op = "insert" /\ call.done
    /\ \E p \in DOMAIN prev : p \in DOMAIN result /\ db[p] # prev[p]

\* C10: the keys of the map replace returns are the level-0 slots of the new
\* blooms, the level-0 slots of the reset Numbers (all-zero), and per level
\* 1..L-1 the slots above the new blooms only; each recomputed value is the
\* union over the B children, a child read from the map, else from the
\* database, else all-zero.
C10_ReplaceDiff ==
    (call.op = "replace" /\ ~call.done) =>
        LET first == call.range.start
            n == Len(call.blooms)
            new == {first + i : i \in 0..(n - 1)}
            reset == (first + n)..call.range.end
            child(c) == IF c \in DOMAIN result THEN result[c] ELSE BloomOrDefault(db, c)
        IN /\ DOMAIN result =
                {position(m, 0) : m \in new \cup reset}
                    \cup {position(m, l) : m \in new, l \in 1..max_level}
           /\ \A i \in 0..(n - 1) : result[position(first + i, 0)] = call.blooms[i + 1]
           /\ \A m \in reset : result[position(m, 0)] = BloomDefault
           /\ \A p \in DOMAIN result : p.level > 0 =>
                result[p] = UNION {child(c) : c \in Range(lower_level_positions(p))}

\* C10 witness: a replace that resets a Number whose slot of level 1 is not in
\* the map, and recomputes a slot from a non-zero child read from the database.
C10_Witness ==
    /\ call.op = "replace" /\ ~call.done
    /\ Len(call.blooms) > 0
    /\ LeftAlone(call.range, call.blooms, result) # {}
    /\ \E p \in DOMAIN result : p.level > 0 /\
          \E c \in Range(lower_level_positions(p)) :
              c \notin DOMAIN result /\ c \in DOMAIN db /\ db[c] # BloomDefault

\* The database after call c1 and then call c2, each persisted before the next.
Serial(d, c1, c2) ==
    LET d1 == Persist(d, Diff(d, c1)) IN Persist(d1, Diff(d1, c2))
BothPersistedFromOneBaseline ==
    /\ \A w \in {1, 2} : writers[w].pc = "persisted"
    /\ writers[1].base = writers[2].base
\* No slot of the top level covers Numbers of both writers.
SplitAtTopLevel == split % level_size(max_level) = 0

\* C9 (as stated): two writers on disjoint Numbers that compute their diffs
\* from one baseline and both persist leave the database a serial run leaves.
C9_NoLostUpdate ==
    BothPersistedFromOneBaseline =>
        \/ db = Serial(writers[1].base, writers[1].call, writers[2].call)
        \/ db = Serial(writers[1].base, writers[2].call, writers[1].call)

\* C9 (amended): when the Numbers of the two writers lie under disjoint slots
\* of the top level, the database after both diffs are persisted, in either
\* order, is the one a serial run leaves, in either order.
C9_NoLostUpdateAcrossTopSlots ==
    (BothPersistedFromOneBaseline /\ SplitAtTopLevel) =>
        /\ db = Serial(writers[1].base, writers[1].call, writers[2].call)
        /\ db = Serial(writers[1].base, writers[2].call, writers[1].call)

\* C9 witness: two writers under disjoint top-level slots of a tree of more
\* than one level, over a non-empty baseline, the later diff computed before
\* the earlier one was persisted, and both changing the database.
C9_Witness ==
    /\ BothPersistedFromOneBaseline /\ SplitAtTopLevel
    /\ max_level > 0 /\ config.elements_per_index > 1
    /\ writers[1].base # EmptyMap
    /\ \A w \in {1, 2} : Persist(writers[w].base, writers[w].diff) # writers[w].base
    /\ db # Persist(writers[1].base, writers[1].diff)
    /\ db # Persist(writers[1].base, writers[2].diff)

====
